---- MODULE Spec2Model ----
(***************************************************************************)
(* Model of the cloudfn helper library: package fnerrors (error values     *)
(* carrying an HTTP status) and package fnhttp (CORS middleware, response  *)
(* writing, request body decoding and the required-field check).           *)
(*                                                                         *)
(* Strings are sequences of chunks (TLA+ strings used as atoms); a chunk   *)
(* is one character wherever the code looks inside a string.               *)
(***************************************************************************)
EXTENDS Integers, Sequences, FiniteSets, TLC

VARIABLES
    err,          \* fnerrors: the error value the handler currently holds
    base,         \* the error as first constructed, before any Wrap
    wraps,        \* the prefixes handed to Wrap since, innermost first
    werr,         \* the error handed to WriteErr by the last write
    w,            \* http.ResponseWriter of the current request
    ret,          \* what the last handler call returned
    CORSOrigins,  \* FnHttper.CORSOrigins
    corsOrigins,  \* FnHttper.corsOrigins
    req,          \* the request last handed to CORSMiddleware
    sent,         \* (Origin, Access-Control-Allow-Origin) of every answer
    nreq,         \* requests served so far
    rbody,        \* r.Body: the bytes still to be read, and whether reading fails
    schema,       \* the struct type behind ifcPtr: its fields and their tags
    target,       \* the value ifcPtr points to
    outcomes,     \* what each GetPostData call left: the error and the target
    reads,        \* what each GetPostData call read from r.Body
    cerr,         \* what the last checkRequiredFields call returned
    pc,           \* concurrent CORSMiddleware calls: the line each is at
    pin,          \* the Origin header of each call's request
    pidx,         \* the index each call's loop over CORSOrigins is at
    fnmap,        \* fn.corsOrigins as the calls share it: the map it points to
    heap,         \* the maps made so far, each with its keys
    fatal         \* the runtime has stopped the process

errVars  == <<err, base, wraps, werr>>
httpVars == <<w, ret>>
corsVars == <<CORSOrigins, corsOrigins, req, sent, nreq>>
decVars  == <<rbody, schema, target, outcomes, reads, cerr>>
concVars == <<pc, pin, pidx, fnmap, heap, fatal>>

----------------------------------------------------------------------------
(* Bounds *)

MaxWrap == 2
MaxLen == 2
MaxOrigins == 2
MaxReq == 2
MaxBody == 3
MaxCalls == 2
MaxFields == 2
NumCalls == 2

----------------------------------------------------------------------------
(* strings *)

StartsWith(s, p) == Len(p) <= Len(s) /\ SubSeq(s, 1, Len(p)) = p

EndsWith(s, p) ==
    Len(p) <= Len(s) /\ SubSeq(s, Len(s) - Len(p) + 1, Len(s)) = p

\* strings.Contains
Contains(s, sub) ==
    \E i \in 0..(Len(s) - Len(sub)) : SubSeq(s, i + 1, i + Len(sub)) = sub

\* fmt.Sprintf("%s: %v", msg, text)
Sprintf(m, text) == m \o <<": ">> \o text

----------------------------------------------------------------------------
(* package fnerrors *)

StatusBadRequest == 400
StatusNotFound == 404
StatusInternalServerError == 500
StatusNoContent == 204

\* fn.corsOrigins before the first call: the nil map
NilMap == [made |-> FALSE, keys |-> {}]

\* the nil error
NilErr == [kind |-> "nil", status |-> 0, msg |-> <<>>, detail |-> <<>>]

\* an error that is not *fnerrors.Error (errors.New, fmt.Errorf, json errors)
PlainError(m) == [kind |-> "plain", status |-> 0, msg |-> m, detail |-> <<>>]

\* Error.Error(), and what %v prints for an error
ErrorText(e) == IF e.kind = "nil" THEN <<"<nil>">> ELSE e.msg

\* an Option list is the sequence of details its Detail(...) options carry;
\* each option overwrites e.detail, so the last one stays
ApplyOpts(e, opts) ==
    IF opts = <<>> THEN e ELSE [e EXCEPT !.detail = opts[Len(opts)]]

\* the *Error{status, msg} literal
ErrorValue(st, m) == [kind |-> "app", status |-> st, msg |-> m, detail |-> <<>>]

New(st, m, opts) == ApplyOpts(ErrorValue(st, m), opts)

newHTTP(st, m, cause, opts) ==
    ApplyOpts(ErrorValue(st, IF cause.kind # "nil"
                             THEN Sprintf(m, ErrorText(cause)) ELSE m), opts)

NewBadRequest(m, cause, opts) == newHTTP(StatusBadRequest, m, cause, opts)

NewNotFound(m, cause, opts) == newHTTP(StatusNotFound, m, cause, opts)

\* Wrap without the type test of line 97: always the fmt.Errorf of line 100
WrapLosingType(m, e) == PlainError(Sprintf(m, ErrorText(e)))

Wrap(m, e) ==
    IF e.kind = "app"
    THEN New(e.status, Sprintf(m, ErrorText(e)), <<>>)
    ELSE PlainError(Sprintf(m, ErrorText(e)))

HTTPStatus(e) == e.status

GetDetail(e) == IF e.kind = "app" THEN e.detail ELSE <<>>

\* encoding/json string escaping of one chunk
JSONEscapeChunk(c) ==
    IF c = "\"" THEN <<"\\", "\"">>
    ELSE IF c = "\\" THEN <<"\\", "\\">>
    ELSE <<c>>

RECURSIVE JSONEscape(_)
JSONEscape(s) ==
    IF s = <<>> THEN <<>> ELSE JSONEscapeChunk(Head(s)) \o JSONEscape(Tail(s))

EnvelopeOpen == <<"{", "\"error\"", ":", "{", "\"message\"", ":", "\"">>
EnvelopeClose == <<"\"", "}", "}">>

\* json.Marshal(HTTPResponse{Error: HTTPError{Message: e.msg}}) cannot fail:
\* the value holds one string
JSONResponse(e) == EnvelopeOpen \o JSONEscape(e.msg) \o EnvelopeClose

----------------------------------------------------------------------------
(* package fnhttp: writing the response *)

NewWriter == [status |-> <<>>, headers |-> <<>>, body |-> <<>>]

WriteHeader(rw, code) == [rw EXCEPT !.status = Append(@, code)]

Fprintln(rw, bytes) == [rw EXCEPT !.body = @ \o bytes \o <<"\n">>]

WriteErr(rw, e) ==
    LET isFn == e.kind = "app"
        st   == IF isFn THEN HTTPStatus(e) ELSE StatusInternalServerError
        m    == IF isFn THEN JSONResponse(e) ELSE ErrorText(e)
    IN  Fprintln(WriteHeader(rw, st), m)

\* a result value is what its marshalling yields: the bytes, or the error;
\* binary tells whether it is an encoding.BinaryMarshaler
WriteRes(rw, res, e) ==
    IF e.kind # "nil" THEN WriteErr(rw, e)
    ELSE IF res.fail.kind # "nil" THEN WriteErr(rw, res.fail)
    ELSE Fprintln(rw, res.bytes)

\* the error WriteRes hands to WriteErr, NilErr when it writes the result
WriteResErr(res, e) == IF e.kind # "nil" THEN e ELSE res.fail

----------------------------------------------------------------------------
(* inputs of the error mapper *)

Statuses == {0, 99, 100, 404, 503, 599, 600}
Messages == {<<"m">>, <<"\"">>}
Prefixes == {<<"p">>, <<"q">>}
Details  == {<<"d">>}
OptLists == {<<>>} \cup {<<d>> : d \in Details}
Causes   == {NilErr} \cup {PlainError(m) : m \in Messages}

Results ==
    {[binary |-> FALSE, fail |-> NilErr, bytes |-> <<"{", "}">>],
     [binary |-> FALSE, fail |-> PlainError(<<"json: unsupported type">>),
      bytes |-> <<>>],
     [binary |-> TRUE, fail |-> NilErr, bytes |-> <<"b">>],
     [binary |-> TRUE, fail |-> PlainError(<<"m">>), bytes |-> <<>>],
     [binary |-> TRUE,
      fail |-> New(StatusNotFound, <<"m">>, <<<<"d">>>>), bytes |-> <<>>]}

vars == <<errVars, httpVars, corsVars, decVars, concVars>>

\* a handler serving a new request starts with a fresh writer
NewRequest ==
    /\ wraps' = <<>>
    /\ werr' = NilErr
    /\ w' = NewWriter
    /\ ret' = "none"
    /\ UNCHANGED <<corsVars, decVars, concVars>>

DoNew ==
    /\ \E s \in Statuses, m \in Messages, o \in OptLists : err' = New(s, m, o)
    /\ base' = err'
    /\ NewRequest

DoNewBadRequest ==
    /\ \E m \in Messages, c \in Causes, o \in OptLists :
        err' = NewBadRequest(m, c, o)
    /\ base' = err'
    /\ NewRequest

DoNewNotFound ==
    /\ \E m \in Messages, c \in Causes, o \in OptLists :
        err' = NewNotFound(m, c, o)
    /\ base' = err'
    /\ NewRequest

\* an error of another package reaches the handler
DoPlainError ==
    /\ \E m \in Messages : err' = PlainError(m)
    /\ base' = err'
    /\ NewRequest

DoWrap ==
    /\ Len(wraps) < MaxWrap
    /\ \E p \in Prefixes :
        /\ err' = Wrap(p, err)
        /\ wraps' = Append(wraps, p)
    /\ UNCHANGED <<base, werr, httpVars, corsVars, decVars, concVars>>

DoWriteErr ==
    /\ err.kind # "nil"
    /\ w' = WriteErr(NewWriter, err)
    /\ werr' = err
    /\ ret' = "WriteErr"
    /\ UNCHANGED <<err, base, wraps, corsVars, decVars, concVars>>

DoWriteRes ==
    /\ \E res \in Results, e \in {NilErr, err} :
        /\ w' = WriteRes(NewWriter, res, e)
        /\ werr' = WriteResErr(res, e)
    /\ ret' = "WriteRes"
    /\ UNCHANGED <<err, base, wraps, corsVars, decVars, concVars>>

ErrNext ==
    \/ DoNew
    \/ DoNewBadRequest
    \/ DoNewNotFound
    \/ DoPlainError
    \/ DoWrap
    \/ DoWriteErr
    \/ DoWriteRes

ErrInit ==
    /\ err = NilErr
    /\ base = NilErr
    /\ wraps = <<>>
    /\ werr = NilErr
    /\ w = NewWriter
    /\ ret = "none"
    /\ CORSOrigins = <<>>
    /\ corsOrigins = NilMap
    /\ req = [origin |-> <<>>, method |-> "GET"]
    /\ sent = {}
    /\ nreq = 0
    /\ rbody = [data |-> <<>>, fail |-> FALSE]
    /\ schema = <<>>
    /\ target = <<>>
    /\ outcomes = <<>>
    /\ reads = <<>>
    /\ cerr = NilErr
    /\ pc = <<>>
    /\ pin = <<>>
    /\ pidx = <<>>
    /\ fnmap = 0
    /\ heap = <<>>
    /\ fatal = FALSE

SpecErr == ErrInit /\ [][ErrNext]_vars

----------------------------------------------------------------------------
(* Claims on the error mapper *)

\* the response just written answers the wrapped error the handler holds
WroteHeld == ret = "WriteErr" /\ werr = err

\* C1: after n >= 1 applications of Wrap to an AppError of status s the error
\* is still an AppError of status s whose message starts with the outermost
\* prefix, and WriteErr answers it with status s; an error that is not an
\* AppError stays one under Wrap and is answered with status 500.
C1_WrapKeepsStatus ==
    Len(wraps) >= 1 =>
        /\ base.kind = "app" =>
            /\ err.kind = "app"
            /\ err.status = base.status
            /\ StartsWith(err.msg, wraps[Len(wraps)])
            /\ WroteHeld => w.status = <<base.status>>
        /\ base.kind = "plain" =>
            /\ err.kind = "plain"
            /\ WroteHeld => w.status = <<StatusInternalServerError>>

C1_Witness ==
    /\ Len(wraps) = MaxWrap
    /\ base.kind = "app"
    /\ base.status = StatusNotFound
    /\ WroteHeld
    /\ w.status = <<StatusNotFound>>

IsEnvelopeLine(body) ==
    /\ StartsWith(body, EnvelopeOpen)
    /\ EndsWith(body, EnvelopeClose \o <<"\n">>)
    /\ Len(body) >= Len(EnvelopeOpen) + Len(EnvelopeClose) + 1

\* C2: every error body written to the client is the JSON error envelope
\* built from a client-facing message: an AppError's detail never appears in
\* it, and the raw text of an error that is not an AppError never appears.
C2_ErrorBodyIsEnvelope ==
    werr.kind # "nil" =>
        /\ IsEnvelopeLine(w.body)
        /\ werr.kind = "app" /\ werr.detail # <<>> =>
               ~Contains(w.body, werr.detail)
        /\ werr.kind = "plain" => ~Contains(w.body, werr.msg)

\* C10: every AppError has a status in 100..599, so WriteErr never writes a
\* status outside that range.
C10_StatusValid ==
    /\ err.kind = "app" => err.status \in 100..599
    /\ werr.kind # "nil" => \A i \in 1..Len(w.status) : w.status[i] \in 100..599

----------------------------------------------------------------------------
(* package fnhttp: CORSMiddleware *)

\* http.Header.Set
SetHeader(rw, k, v) ==
    [rw EXCEPT !.headers =
        [x \in (DOMAIN rw.headers) \cup {k} |-> IF x = k THEN v ELSE rw.headers[x]]]

\* lines 34-36: the lookup map is created on first use
EnsureMap(cache) == IF cache.made THEN cache ELSE [made |-> TRUE, keys |-> {}]

\* lines 39-41: an Origin seen before is used as it is
CachedOrigin(cache, first, origin) ==
    IF origin \in cache.keys THEN origin ELSE first

\* the loop with == in place of strings.Contains on line 45
ScanExactOrigins(list, i, origin, st) ==
    IF \E j \in i..Len(list) : list[j] = origin
    THEN [origin |-> origin, keys |-> st.keys \cup {origin}]
    ELSE st

\* lines 44-49: st is [origin, keys], the loop's variables before element i
RECURSIVE ScanOrigins(_, _, _, _)
ScanOrigins(list, i, origin, st) ==
    IF i > Len(list) THEN st
    ELSE ScanOrigins(list, i + 1, origin,
             IF Contains(origin, list[i])
             THEN [origin |-> origin, keys |-> st.keys \cup {origin}]
             ELSE st)

\* lines 52-57
SetCORSHeaders(rw, origin) ==
    SetHeader(SetHeader(SetHeader(SetHeader(SetHeader(SetHeader(rw,
        "Access-Control-Allow-Credentials", "true"),
        "Access-Control-Allow-Headers", "*"),
        "Access-Control-Allow-Methods", "GET, POST, PUT, DELETE, PATCH, OPTIONS"),
        "Access-Control-Allow-Origin", origin),
        "Access-Control-Max-Age", "3600"),
        "Vary", "Origin")

\* lines 60-65 without the early return for OPTIONS
PreflightNever(rw, method) == [w |-> rw, ret |-> "false"]

\* lines 60-65
Preflight(rw, method) ==
    IF method = "OPTIONS"
    THEN [w |-> WriteHeader(rw, StatusNoContent), ret |-> "true"]
    ELSE [w |-> rw, ret |-> "false"]

\* the panic of line 28 placed after the map creation of lines 34-36
PanicAfterMap(cache, rw) ==
    [cache |-> EnsureMap(cache), w |-> rw, ret |-> "panic", hit |-> FALSE]

\* lines 27-29: the panic leaves the receiver and the writer as they were
PanicNoOrigins(cache, rw) ==
    [cache |-> cache, w |-> rw, ret |-> "panic", hit |-> FALSE]

\* the whole of CORSMiddleware: the map afterwards, the writer afterwards,
\* the value returned ("panic" when it panics) and whether line 39 hit
CORSMiddleware(list, cache, rw, r) ==
    IF Len(list) = 0
    THEN PanicNoOrigins(cache, rw)
    ELSE LET m    == EnsureMap(cache)
             hit  == r.origin \in m.keys
             st0  == [origin |-> CachedOrigin(m, list[1], r.origin),
                      keys |-> m.keys]
             st   == ScanOrigins(list, 1, r.origin, st0)
             pre  == Preflight(SetCORSHeaders(rw, st.origin), r.method)
         IN  [cache |-> [made |-> TRUE, keys |-> st.keys],
              w |-> pre.w, ret |-> pre.ret, hit |-> hit]

Alphabet == {"a", "b"}
Strs(n) == UNION {[1..k -> Alphabet] : k \in 0..n}
RequestOrigins == Strs(MaxLen)
AllowedOrigins == {<<>>, <<"a">>, <<"b", "a">>}
Methods == {"GET", "OPTIONS"}

Serve ==
    /\ nreq < MaxReq
    /\ \E o \in RequestOrigins, m \in Methods :
        LET r   == [origin |-> o, method |-> m]
            out == CORSMiddleware(CORSOrigins, corsOrigins, NewWriter, r)
        IN  /\ req' = r
            /\ corsOrigins' = out.cache
            /\ w' = out.w
            /\ ret' = out.ret
            /\ sent' = IF out.ret = "panic" THEN sent
                       ELSE sent \cup
                            {[origin |-> o, hit |-> out.hit,
                              allow |-> out.w.headers["Access-Control-Allow-Origin"]]}
    /\ nreq' = nreq + 1
    /\ UNCHANGED <<CORSOrigins, errVars, decVars, concVars>>

CorsNext == Serve

CorsInit ==
    /\ err = NilErr
    /\ base = NilErr
    /\ wraps = <<>>
    /\ werr = NilErr
    /\ w = NewWriter
    /\ ret = "none"
    /\ CORSOrigins \in UNION {[1..k -> AllowedOrigins] : k \in 0..MaxOrigins}
    /\ corsOrigins = NilMap
    /\ req = [origin |-> <<>>, method |-> "GET"]
    /\ sent = {}
    /\ nreq = 0
    /\ rbody = [data |-> <<>>, fail |-> FALSE]
    /\ schema = <<>>
    /\ target = <<>>
    /\ outcomes = <<>>
    /\ reads = <<>>
    /\ cerr = NilErr
    /\ pc = <<>>
    /\ pin = <<>>
    /\ pidx = <<>>
    /\ fnmap = 0
    /\ heap = <<>>
    /\ fatal = FALSE

SpecCORS == CorsInit /\ [][CorsNext]_vars

----------------------------------------------------------------------------
(* Claims on the CORS middleware *)

Answered == nreq >= 1 /\ ret \in {"true", "false"}

Matches(origin) == \E i \in 1..Len(CORSOrigins) : Contains(origin, CORSOrigins[i])

\* C3: the Access-Control-Allow-Origin of every answer is the request's
\* Origin when that Origin contains a configured origin (and the Origin is
\* then cached), the first configured origin otherwise; two requests with the
\* same Origin get the same header, whichever path served them.
C3_AllowOriginByContainment ==
    /\ Answered =>
        LET allow == w.headers["Access-Control-Allow-Origin"]
        IN  /\ Matches(req.origin) =>
                allow = req.origin /\ req.origin \in corsOrigins.keys
            /\ ~Matches(req.origin) => allow = CORSOrigins[1]
    /\ \A x \in sent, y \in sent : x.origin = y.origin => x.allow = y.allow

C3_Witness ==
    \E x \in sent, y \in sent :
        /\ x.origin = y.origin
        /\ x.hit /\ ~y.hit
        /\ x.allow = x.origin
        /\ x.allow # CORSOrigins[1]

CORSHeaderNames ==
    {"Access-Control-Allow-Credentials", "Access-Control-Allow-Headers",
     "Access-Control-Allow-Methods", "Access-Control-Allow-Origin",
     "Access-Control-Max-Age", "Vary"}

\* C4: with at least one configured origin an OPTIONS request is answered
\* true with status 204, any other request false with no status written, and
\* in both cases the six CORS headers are set.
C4_PreflightOnlyForOptions ==
    (nreq >= 1 /\ Len(CORSOrigins) >= 1) =>
        /\ req.method = "OPTIONS" => ret = "true" /\ w.status = <<StatusNoContent>>
        /\ req.method # "OPTIONS" => ret = "false" /\ w.status = <<>>
        /\ DOMAIN w.headers = CORSHeaderNames
        /\ w.headers["Access-Control-Allow-Credentials"] = "true"
        /\ w.headers["Access-Control-Max-Age"] = "3600"
        /\ w.headers["Vary"] = "Origin"

C4_Witness ==
    /\ nreq >= 1
    /\ Len(CORSOrigins) >= 1
    /\ req.method = "OPTIONS"
    /\ ~Matches(req.origin)
    /\ ret = "true"
    /\ w.status = <<StatusNoContent>>

\* C5: with no configured origin every call panics, having set no header,
\* written no status and left the origin map uncreated.
C5_EmptyPolicyPanics ==
    (nreq >= 1 /\ Len(CORSOrigins) = 0) =>
        /\ ret = "panic"
        /\ w = NewWriter
        /\ corsOrigins = NilMap
        /\ sent = {}

C5_Witness ==
    /\ nreq = MaxReq
    /\ Len(CORSOrigins) = 0
    /\ req.method = "OPTIONS"
    /\ ret = "panic"

----------------------------------------------------------------------------
(* package fnhttp: GetPostData and checkRequiredFields *)

\* The body is a sequence of JSON tokens; a string token carries its text.
Tok(type) == [t |-> type, v |-> <<>>]
Str(text) == [t |-> "str", v |-> text]

\* A field of the request struct: its Go name, its json and cloudfn tags and
\* its kind ("string", or "ptr" for a pointer to a struct).  A field value
\* is [k, s, set]: the text of a string, whether a pointer is non-nil.
ZeroOf(f) == [k |-> f.kind, s |-> <<>>, set |-> FALSE]
ZeroValue(sch) == [i \in 1..Len(sch.fields) |-> ZeroOf(sch.fields[i])]

\* reflect.Value.IsZero
IsZero(v) == IF v.k = "string" THEN v.s = <<>> ELSE ~v.set

Required == <<"r", "e", "q", "u", "i", "r", "e", "d">>

\* strings.Split(tag, ",")[0]
RECURSIVE BeforeComma(_)
BeforeComma(tag) ==
    IF tag = <<>> \/ Head(tag) = "," THEN <<>>
    ELSE <<Head(tag)>> \o BeforeComma(Tail(tag))

\* fmt.Errorf("missing required field: %q", name)
MissingField(name) ==
    PlainError(<<"missing required field: ", "\"">> \o name \o <<"\"">>)

\* lines 178-181
ReportedName(f) == IF f.json # <<>> THEN BeforeComma(f.json) ELSE f.name

\* lines 173-186, the loop from field i on
RECURSIVE CheckFrom(_, _, _)
CheckFrom(fields, val, i) ==
    IF i > Len(fields) THEN NilErr
    ELSE IF Contains(fields[i].cloudfn, Required) /\ IsZero(val[i])
         THEN MissingField(ReportedName(fields[i]))
         ELSE CheckFrom(fields, val, i + 1)

checkRequiredFields(sch, val) == CheckFrom(sch.fields, val, 1)

(* encoding/json, as far as Unmarshal into a struct pointer goes *)

StripWS(b) == SelectSeq(b, LAMBDA x : x.t # "ws")

\* the index after the JSON value that starts at t[i], 0 when there is none
RECURSIVE ValueEnd(_, _)
RECURSIVE MembersEnd(_, _)
ValueEnd(t, i) ==
    IF i > Len(t) THEN 0
    ELSE IF t[i].t \in {"null", "str", "num"} THEN i + 1
    ELSE IF t[i].t # "lbrace" THEN 0
    ELSE IF i + 1 <= Len(t) /\ t[i + 1].t = "rbrace" THEN i + 2
    ELSE MembersEnd(t, i + 1)

\* t[i] is where a key must stand; the index after the closing brace
MembersEnd(t, i) ==
    IF i + 1 > Len(t) \/ t[i].t # "str" \/ t[i + 1].t # "colon" THEN 0
    ELSE LET e == ValueEnd(t, i + 2)
         IN  IF e = 0 \/ e > Len(t) THEN 0
             ELSE IF t[e].t = "rbrace" THEN e + 1
             ELSE IF t[e].t = "comma" THEN MembersEnd(t, e + 1)
             ELSE 0

\* checkValid
Valid(t) == ValueEnd(t, 1) = Len(t) + 1

Lower(c) == IF c = "C" THEN "c" ELSE IF c = "N" THEN "n" ELSE c

EqualFold(a, b) ==
    Len(a) = Len(b) /\ \A i \in 1..Len(a) : Lower(a[i]) = Lower(b[i])

\* the name a field decodes from; a field tagged "-" decodes from none
JSONName(f) == IF BeforeComma(f.json) # <<>> THEN BeforeComma(f.json) ELSE f.name

\* the field an object key goes to (an exact match first, then one that
\* differs in case only), 0 when there is none
FieldFor(fields, key) ==
    LET cand  == {i \in 1..Len(fields) : fields[i].json # <<"-">>}
        exact == {i \in cand : JSONName(fields[i]) = key}
        fold  == {i \in cand : EqualFold(JSONName(fields[i]), key)}
        least(S) == CHOOSE i \in S : \A j \in S : i <= j
    IN  IF exact # {} THEN least(exact)
        ELSE IF fold # {} THEN least(fold) ELSE 0

TypeError == PlainError(<<"json: cannot unmarshal">>)
SyntaxError == PlainError(<<"invalid character">>)

\* storing the value that starts with token x into a field holding v:
\* null leaves a string and clears a pointer, a mismatch is saved as the
\* error (the first one is kept) and decoding goes on
StoreValue(st, fi, x) ==
    LET v == st.val[fi]
        mismatch == [st EXCEPT !.err = IF @.kind = "nil" THEN TypeError ELSE @]
    IN  IF x.t = "null"
        THEN [st EXCEPT !.val[fi] = [v EXCEPT !.set = FALSE]]
        ELSE IF x.t = "str" /\ v.k = "string"
        THEN [st EXCEPT !.val[fi] = [v EXCEPT !.s = x.v]]
        ELSE IF x.t = "lbrace" /\ v.k = "ptr"
        THEN [st EXCEPT !.val[fi] = [v EXCEPT !.set = TRUE]]
        ELSE mismatch

\* the members of a valid object, t[i] being a key or the closing brace
RECURSIVE DecodeMembers(_, _, _, _)
DecodeMembers(t, i, fields, st) ==
    IF t[i].t = "rbrace" THEN st
    ELSE LET fi  == FieldFor(fields, t[i].v)
             e   == ValueEnd(t, i + 2)
             st2 == IF fi = 0 THEN st ELSE StoreValue(st, fi, t[i + 2])
         IN  IF t[e].t = "comma" THEN DecodeMembers(t, e + 1, fields, st2)
             ELSE st2

\* json.Unmarshal(b, ifcPtr)
Unmarshal(b, sch, val) ==
    LET t  == StripWS(b)
        st == [val |-> val, err |-> NilErr]
    IN  IF ~Valid(t) THEN [st EXCEPT !.err = SyntaxError]
        ELSE IF t[1].t = "null" THEN st
        ELSE IF t[1].t # "lbrace" THEN [st EXCEPT !.err = TypeError]
        ELSE DecodeMembers(t, 2, sch.fields, st)

\* ifcPtr.UnmarshalBinary(b) is the caller's code; sch.codec says which of
\* three it is: one that rejects the bytes, one that accepts them and
\* leaves the value alone, one that accepts them and fills every field
UnmarshalBinary(b, sch, val) ==
    IF sch.codec = "binFail"
    THEN [val |-> val, err |-> PlainError(<<"bad bytes">>)]
    ELSE IF sch.codec = "binKeep" THEN [val |-> val, err |-> NilErr]
    ELSE [val |-> [i \in 1..Len(val) |-> [val[i] EXCEPT !.s = <<"c">>, !.set = TRUE]],
          err |-> NilErr]

\* ioutil.ReadAll(r.Body)
ReadAll(body) ==
    [b |-> IF body.fail THEN <<>> ELSE body.data,
     err |-> IF body.fail THEN PlainError(<<"unexpected EOF">>) ELSE NilErr,
     body |-> [body EXCEPT !.data = <<>>]]

\* lines 129-144, once b is known not to be empty
DecodeAndCheck(b, sch, val) ==
    LET isBin == sch.codec # "json"
        dec   == IF isBin THEN UnmarshalBinary(b, sch, val)
                 ELSE Unmarshal(b, sch, val)
        chk   == checkRequiredFields(sch, dec.val)
    IN  IF dec.err.kind # "nil"
        THEN [val |-> dec.val,
              err |-> NewBadRequest(IF isBin THEN <<"binary unmarshal">>
                                    ELSE <<"json decode">>, dec.err, <<>>)]
        ELSE IF chk.kind # "nil"
        THEN [val |-> dec.val, err |-> NewBadRequest(<<"bad request">>, chk, <<>>)]
        ELSE [val |-> dec.val, err |-> NilErr]

MissingBody ==
    NewBadRequest(<<"bad request">>, PlainError(<<"missing http body">>), <<>>)

\* GetPostData without line 127: r.Body stays drained
GetPostDataNoRebuffer(body, sch, val) ==
    LET rd == ReadAll(body)
    IN  IF rd.err.kind # "nil"
        THEN [body |-> rd.body, val |-> val, b |-> rd.b, ok |-> FALSE,
              err |-> NewBadRequest(<<"read body">>, rd.err, <<>>)]
        ELSE IF Len(rd.b) = 0
        THEN [body |-> rd.body, val |-> val, b |-> rd.b, ok |-> TRUE,
              err |-> MissingBody]
        ELSE LET out == DecodeAndCheck(rd.b, sch, val)
             IN  [body |-> rd.body, val |-> out.val, b |-> rd.b, ok |-> TRUE,
                  err |-> out.err]

\* GetPostData without lines 122-124: an empty body goes on to the decoder
GetPostDataNoEmptyCheck(body, sch, val) ==
    LET rd == ReadAll(body)
    IN  IF rd.err.kind # "nil"
        THEN [body |-> rd.body, val |-> val, b |-> rd.b, ok |-> FALSE,
              err |-> NewBadRequest(<<"read body">>, rd.err, <<>>)]
        ELSE LET out == DecodeAndCheck(rd.b, sch, val)
             IN  [body |-> [rd.body EXCEPT !.data = rd.b], val |-> out.val,
                  b |-> rd.b, ok |-> TRUE, err |-> out.err]

\* the whole of GetPostData: r.Body and the target afterwards, the bytes
\* read and whether reading them succeeded, and the error returned
GetPostData(body, sch, val) ==
    LET rd == ReadAll(body)
    IN  IF rd.err.kind # "nil"
        THEN [body |-> rd.body, val |-> val, b |-> rd.b, ok |-> FALSE,
              err |-> NewBadRequest(<<"read body">>, rd.err, <<>>)]
        ELSE IF Len(rd.b) = 0
        THEN [body |-> rd.body, val |-> val, b |-> rd.b, ok |-> TRUE,
              err |-> MissingBody]
        ELSE LET out == DecodeAndCheck(rd.b, sch, val)
             IN  [body |-> [rd.body EXCEPT !.data = rd.b], val |-> out.val,
                  b |-> rd.b, ok |-> TRUE, err |-> out.err]

(* inputs of the decoder *)

Field(n, j, c, k) == [name |-> n, json |-> j, cloudfn |-> c, kind |-> k]

Campaign == Field(<<"C">>, <<"c">>, Required, "ptr")
Name     == Field(<<"N">>, <<"n", ",", "omitempty">>, Required, "string")
Note     == Field(<<"N">>, <<>>, <<>>, "string")

Structs == {<<Campaign>>, <<Name, Field(<<"C">>, <<"c">>, <<>>, "ptr")>>, <<Note>>}
Codecs  == {"json", "binFail", "binKeep", "binFill"}
Schemas == {[fields |-> f, codec |-> c] : f \in Structs, c \in Codecs}

ShortTokens ==
    {Tok("lbrace"), Tok("rbrace"), Tok("colon"), Tok("comma"), Tok("null"),
     Tok("ws"), Str(<<"c">>), Str(<<>>)}

LongBodies ==
    {<<Tok("lbrace"), Str(<<"c">>), Tok("colon"), Tok("null"), Tok("rbrace")>>,
     <<Tok("lbrace"), Str(<<"c">>), Tok("colon"), Tok("lbrace"), Tok("rbrace"),
       Tok("rbrace")>>,
     <<Tok("lbrace"), Str(<<"C">>), Tok("colon"), Tok("lbrace"), Tok("rbrace"),
       Tok("rbrace")>>,
     <<Tok("lbrace"), Str(<<"c">>), Tok("colon"), Str(<<"c">>), Tok("rbrace")>>,
     <<Tok("lbrace"), Str(<<"n">>), Tok("colon"), Str(<<"x">>), Tok("rbrace")>>,
     <<Tok("lbrace"), Str(<<"n">>), Tok("colon"), Str(<<>>), Tok("rbrace")>>,
     <<Tok("lbrace"), Str(<<"n">>), Tok("colon"), Tok("num"), Tok("rbrace")>>,
     <<Tok("lbrace"), Str(<<"n">>), Tok("colon"), Str(<<"x">>), Tok("comma"),
       Str(<<"c">>), Tok("colon"), Tok("lbrace"), Tok("rbrace"), Tok("rbrace")>>,
     <<Tok("lbrace"), Str(<<"n">>), Tok("colon"), Tok("num"), Tok("comma"),
       Str(<<"n">>), Tok("colon"), Str(<<"x">>), Tok("rbrace")>>,
     <<Tok("lbrace"), Str(<<"c">>), Tok("colon"), Tok("lbrace"), Str(<<"c">>),
       Tok("colon"), Tok("null"), Tok("rbrace"), Tok("rbrace")>>}

Bodies == UNION {[1..k -> ShortTokens] : k \in 0..MaxBody} \cup LongBodies

\* a handler calls GetPostData(r, ifcPtr), ifcPtr pointing to a fresh value
\* of the struct or to the value an earlier call left
DoGetPostData ==
    /\ Len(outcomes) < MaxCalls
    /\ \E val \in {ZeroValue(schema), target} :
        LET out == GetPostData(rbody, schema, val)
        IN  /\ rbody' = out.body
            /\ target' = out.val
            /\ outcomes' = Append(outcomes, [err |-> out.err, val |-> out.val])
            /\ reads' = Append(reads, [ok |-> out.ok, b |-> out.b])
    /\ UNCHANGED <<schema, cerr, errVars, httpVars, corsVars, concVars>>

DecNext == DoGetPostData

DecInit ==
    /\ err = NilErr
    /\ base = NilErr
    /\ wraps = <<>>
    /\ werr = NilErr
    /\ w = NewWriter
    /\ ret = "none"
    /\ CORSOrigins = <<>>
    /\ corsOrigins = NilMap
    /\ req = [origin |-> <<>>, method |-> "GET"]
    /\ sent = {}
    /\ nreq = 0
    /\ rbody \in [data : Bodies, fail : BOOLEAN]
    /\ schema \in Schemas
    /\ target = ZeroValue(schema)
    /\ outcomes = <<>>
    /\ reads = <<>>
    /\ cerr = NilErr
    /\ pc = <<>>
    /\ pin = <<>>
    /\ pidx = <<>>
    /\ fnmap = 0
    /\ heap = <<>>
    /\ fatal = FALSE

SpecDecode == DecInit /\ [][DecNext]_vars

----------------------------------------------------------------------------
(* Claims on the decoder *)

Calls == Len(outcomes)

AllRequiredSet(val) ==
    \A i \in 1..Len(schema.fields) :
        Contains(schema.fields[i].cloudfn, Required) => ~IsZero(val[i])

Deserializes(b) ==
    IF schema.codec = "json"
    THEN Unmarshal(b, schema, ZeroValue(schema)).err = NilErr
    ELSE schema.codec # "binFail"

\* C6: GetPostData returns nil exactly when the body is read, is not empty,
\* deserializes and leaves every required field non-zero; every other call
\* returns an AppError of status 400, and an empty body is reported as
\* missing, not as a decode or validation failure.
C6_NilExactlyWhenValid ==
    \A n \in 1..Calls :
        LET o == outcomes[n]
            r == reads[n]
            good == r.ok /\ r.b # <<>> /\ Deserializes(r.b) /\ AllRequiredSet(o.val)
        IN  /\ good <=> o.err = NilErr
            /\ ~good => o.err.kind = "app" /\ o.err.status = StatusBadRequest
            /\ (r.ok /\ r.b = <<>>) => o.err = MissingBody

C6_Witness ==
    /\ Calls >= 1
    /\ schema.codec = "json"
    /\ schema.fields = <<Campaign>>
    /\ reads[1].ok
    /\ reads[1].b = <<Tok("lbrace"), Str(<<"c">>), Tok("colon"), Tok("null"),
                      Tok("rbrace")>>
    /\ outcomes[1].err.kind = "app"
    /\ outcomes[1].err.status = StatusBadRequest
    /\ Contains(outcomes[1].err.msg, <<"\"", "c", "\"">>)

\* C7: once a call has read a non-empty body, r.Body yields those bytes
\* again, whatever the call returned, and the next call returns what that
\* call returned.
C7_BodyReadableAgain ==
    /\ (Calls >= 1 /\ reads[Calls].ok /\ reads[Calls].b # <<>>) =>
           rbody = [data |-> reads[Calls].b, fail |-> FALSE]
    /\ \A n \in 1..(Calls - 1) :
           (reads[n].ok /\ reads[n].b # <<>>) =>
               /\ reads[n + 1] = reads[n]
               /\ outcomes[n + 1] = outcomes[n]

C7_Witness ==
    /\ Calls = MaxCalls
    /\ reads[1].ok
    /\ Len(reads[1].b) >= 5
    /\ outcomes[1].err.kind = "app"
    /\ Contains(outcomes[1].err.msg, <<"missing required field: ">>)
    /\ outcomes[Calls] = outcomes[1]

----------------------------------------------------------------------------
(* checkRequiredFields on its own *)

FieldName(i) == <<"F", ToString(i)>>
JSONTags == {<<>>, <<"c">>, <<"c", ",", "omitempty">>, <<",", "omitempty">>}
CloudfnTags == {<<>>, Required, Required \o <<",", "x">>, <<"r", "e", "q">>}
Kinds == {"string", "ptr"}

\* a struct of n fields, and a value of it with each field zero or not
StructsOf(n) ==
    {[i \in 1..n |-> Field(FieldName(i), g[i].json, g[i].cloudfn, g[i].kind)] :
        g \in [1..n -> [json : JSONTags, cloudfn : CloudfnTags, kind : Kinds]]}

ValuesOf(fields) ==
    {[i \in 1..Len(fields) |->
        [k |-> fields[i].kind, s |-> IF z[i] THEN <<>> ELSE <<"x">>, set |-> ~z[i]]] :
        z \in [1..Len(fields) -> BOOLEAN]}

DoCheckRequired ==
    /\ outcomes = <<>>
    /\ cerr' = checkRequiredFields(schema, target)
    /\ outcomes' = <<[err |-> cerr', val |-> target]>>
    /\ UNCHANGED <<rbody, schema, target, reads, errVars, httpVars, corsVars,
                   concVars>>

ReqNext == DoCheckRequired

ReqInit ==
    /\ err = NilErr
    /\ base = NilErr
    /\ wraps = <<>>
    /\ werr = NilErr
    /\ w = NewWriter
    /\ ret = "none"
    /\ CORSOrigins = <<>>
    /\ corsOrigins = NilMap
    /\ req = [origin |-> <<>>, method |-> "GET"]
    /\ sent = {}
    /\ nreq = 0
    /\ rbody = [data |-> <<>>, fail |-> FALSE]
    /\ schema \in {[fields |-> f, codec |-> "json"] :
                      f \in UNION {StructsOf(n) : n \in 0..MaxFields}}
    /\ target \in ValuesOf(schema.fields)
    /\ outcomes = <<>>
    /\ reads = <<>>
    /\ cerr = NilErr
    /\ pc = <<>>
    /\ pin = <<>>
    /\ pidx = <<>>
    /\ fnmap = 0
    /\ heap = <<>>
    /\ fatal = FALSE

SpecRequired == ReqInit /\ [][ReqNext]_vars

\* the required fields of the struct that are at their zero value
ZeroRequired ==
    {i \in 1..Len(schema.fields) :
        Contains(schema.fields[i].cloudfn, Required) /\ IsZero(target[i])}

\* the json alias a field declares, <<>> when it declares none
Alias(f) == BeforeComma(f.json)

\* C8: checkRequiredFields returns nil when no required field is zero;
\* otherwise its error names the first required field that is zero, by its
\* json alias (the part of the tag before any comma) or, when the field
\* declares no alias, by its Go name.
C8_NamesFirstMissingField ==
    outcomes # <<>> =>
        IF ZeroRequired = {} THEN cerr = NilErr
        ELSE LET i == CHOOSE j \in ZeroRequired : \A k \in ZeroRequired : j <= k
                 f == schema.fields[i]
             IN  cerr = MissingField(IF Alias(f) # <<>> THEN Alias(f) ELSE f.name)

----------------------------------------------------------------------------
(* CORSMiddleware called from several goroutines on one FnHttper *)

Procs == 1..NumCalls

Goto(p, label) == pc' = [pc EXCEPT ![p] = label]

ConcFrame == UNCHANGED <<errVars, httpVars, corsVars, decVars, pin, fatal>>

\* lines 27-31
LenCheck(p) ==
    /\ ~fatal /\ pc[p] = "len"
    /\ Goto(p, IF Len(CORSOrigins) = 0 THEN "panicked" ELSE "nilcheck")
    /\ UNCHANGED <<pidx, fnmap, heap>>
    /\ ConcFrame

\* line 34: reads fn.corsOrigins
NilCheck(p) ==
    /\ ~fatal /\ pc[p] = "nilcheck"
    /\ Goto(p, IF fnmap = 0 THEN "make" ELSE "lookup")
    /\ UNCHANGED <<pidx, fnmap, heap>>
    /\ ConcFrame

\* line 35: writes fn.corsOrigins
MakeMap(p) ==
    /\ ~fatal /\ pc[p] = "make"
    /\ fnmap' = p
    /\ heap' = [m \in (DOMAIN heap) \cup {p} |-> IF m = p THEN {} ELSE heap[m]]
    /\ Goto(p, "lookup")
    /\ UNCHANGED pidx
    /\ ConcFrame

\* line 39: reads fn.corsOrigins and the map
Lookup(p) ==
    /\ ~fatal /\ pc[p] = "lookup"
    /\ Goto(p, "scan")
    /\ UNCHANGED <<pidx, fnmap, heap>>
    /\ ConcFrame

\* lines 44-45
Scan(p) ==
    /\ ~fatal /\ pc[p] = "scan"
    /\ IF pidx[p] > Len(CORSOrigins)
       THEN Goto(p, "done") /\ UNCHANGED pidx
       ELSE IF Contains(pin[p], CORSOrigins[pidx[p]])
       THEN Goto(p, "store") /\ UNCHANGED pidx
       ELSE UNCHANGED pc /\ pidx' = [pidx EXCEPT ![p] = @ + 1]
    /\ UNCHANGED <<fnmap, heap>>
    /\ ConcFrame

\* line 47: reads fn.corsOrigins and writes the map
Store(p) ==
    /\ ~fatal /\ pc[p] = "store"
    /\ heap' = [heap EXCEPT ![fnmap] = @ \cup {pin[p]}]
    /\ pidx' = [pidx EXCEPT ![p] = @ + 1]
    /\ Goto(p, "scan")
    /\ UNCHANGED fnmap
    /\ ConcFrame

ReadsField(p)  == pc[p] \in {"nilcheck", "lookup", "store"}
WritesField(p) == pc[p] = "make"
ReadsMap(p)    == pc[p] = "lookup"
WritesMap(p)   == pc[p] = "store"

\* two calls are about to touch the same memory, one of them writing it,
\* and nothing orders them
FieldRace ==
    \E p \in Procs, q \in Procs :
        p # q /\ WritesField(p) /\ (ReadsField(q) \/ WritesField(q))

MapRace ==
    \E p \in Procs, q \in Procs :
        p # q /\ WritesMap(p) /\ (ReadsMap(q) \/ WritesMap(q))

\* the runtime may notice a map written while another goroutine uses it and
\* stop the process ("fatal error: concurrent map writes")
Fault ==
    /\ ~fatal /\ MapRace
    /\ fatal' = TRUE
    /\ UNCHANGED <<errVars, httpVars, corsVars, decVars, pc, pin, pidx, fnmap,
                   heap>>

ConcNext ==
    \/ \E p \in Procs : LenCheck(p)
    \/ \E p \in Procs : NilCheck(p)
    \/ \E p \in Procs : MakeMap(p)
    \/ \E p \in Procs : Lookup(p)
    \/ \E p \in Procs : Scan(p)
    \/ \E p \in Procs : Store(p)
    \/ Fault

ConcInit ==
    /\ err = NilErr
    /\ base = NilErr
    /\ wraps = <<>>
    /\ werr = NilErr
    /\ w = NewWriter
    /\ ret = "none"
    /\ CORSOrigins \in UNION {[1..k -> AllowedOrigins] : k \in 0..MaxOrigins}
    /\ corsOrigins = NilMap
    /\ req = [origin |-> <<>>, method |-> "GET"]
    /\ sent = {}
    /\ nreq = 0
    /\ pc = [p \in Procs |-> "len"]
    /\ pin \in [Procs -> RequestOrigins]
    /\ pidx = [p \in Procs |-> 1]
    /\ fnmap = 0
    /\ heap = <<>>
    /\ fatal = FALSE
    /\ rbody = [data |-> <<>>, fail |-> FALSE]
    /\ schema = <<>>
    /\ target = <<>>
    /\ outcomes = <<>>
    /\ reads = <<>>
    /\ cerr = NilErr

SpecConc == ConcInit /\ [][ConcNext]_vars

AllDone == \A p \in Procs : pc[p] = "done"

\* C9: concurrent calls on one FnHttper never touch the origin map (or the
\* field holding it) at the same time with one of them writing, the runtime
\* never stops the process over it, and when all calls are done every
\* Origin a call cached is in the map.
C9_CacheIsConcurrencySafe ==
    /\ ~FieldRace
    /\ ~MapRace
    /\ ~fatal
    /\ AllDone => \A p \in Procs : Matches(pin[p]) => pin[p] \in heap[fnmap]

====
